---- MODULE Spec2Model ----
(***************************************************************************)
(* The OAuth callback interception flow of src-tauri/src/lib.rs:           *)
(* open_oauth_window, its on_page_load handler (the redirect watcher),     *)
(* its on_window_event handler (the close observer) and its polling loop   *)
(* (the waiter).                                                           *)
(*                                                                         *)
(* Strings are sequences of chunks: "http://localhost/x" is                *)
(* <<"http", "://", "localhost", "/x">>.  A chunk is an indivisible run of *)
(* characters, so starts_with is the prefix relation on chunk sequences    *)
(* and two chunks that differ in case are different chunks.                *)
(*                                                                         *)
(* The command runs as an asynchronous task; the two handlers run on the   *)
(* event-dispatch context, one event at a time, and interleave with the    *)
(* task step by step.  A window event emitted before on_window_event is    *)
(* registered reaches no observer.  The window delivers page-load events   *)
(* until it is destroyed.                                                  *)
(*                                                                         *)
(* Beside the flow: a later invocation of the command that shares the      *)
(* window label (TwoFlowSpec), the application-level close handler with    *)
(* the main window, and the permission reset over the startups and exits   *)
(* of the process (ResetSpec).                                             *)
(***************************************************************************)
EXTENDS Integers, Sequences, FiniteSets, TLC

\* ------------------------------------------------------------- bounds
\* Seconds the modelled clock advances in one Tick.
ClockStep == 100
\* Page-load events the child window delivers during one flow.
MaxNavEvents == 2
\* Restarts of the process after its first startup.
MaxRuns == 4

\* ---------------------------------------------------------- constants
\* lib.rs:15  const OAUTH_REDIRECT_PREFIX: &str = "http://localhost/oauth/callback";
OAUTH_REDIRECT_PREFIX == <<"http", "://", "localhost", "/oauth/callback">>

\* lib.rs:183  let timeout = std::time::Duration::from_secs(300);
timeout == 300

\* lib.rs:140  the fixed label of the child window
OAUTH_LABEL == "oauth"

\* ------------------------------------------------------------ strings
\* str::starts_with
StartsWith(s, p) ==
    /\ Len(s) >= Len(p)
    /\ SubSeq(s, 1, Len(p)) = p

\* ASCII lower-casing of one chunk, as the URL parser applies it to the
\* scheme and to the host of a special (http, https) URL.
Lower(c) ==
    CASE c = "HTTP"      -> "http"
      [] c = "HTTPS"     -> "https"
      [] c = "LOCALHOST" -> "localhost"
      [] OTHER           -> c

\* Result<T, E>
Ok(v) == [tag |-> "Ok", val |-> v]
Err(e) == [tag |-> "Err", val |-> e]

\* Option<T>: None is the empty set, Some(v) the singleton.
None == {}
Some(v) == {v}

\* The schemes whose URLs must name a host.
SpecialSchemes == {"http", "https", "ftp"}

\* lib.rs:122  url.parse::<url::Url>(): an absolute URL is a scheme followed
\* by "://"; a special scheme needs a non-empty host after it.  The parsed
\* scheme and host are lower-cased.
ParseUrl(s) ==
    IF /\ Len(s) >= 2
       /\ s[2] = "://"
       /\ (Lower(s[1]) \in SpecialSchemes => Len(s) >= 3)
    THEN Ok([scheme |-> Lower(s[1]),
             host |-> IF Len(s) >= 3 THEN Lower(s[3]) ELSE ""])
    ELSE Err(<<"Invalid URL: ">>)

\* A plausible slip: the host test of the http arm is dropped.
ValidateUrlAnyHttpHost(s) ==
    LET p == ParseUrl(s) IN
    IF p.tag = "Err" THEN Err(p.val)
    ELSE CASE p.val.scheme = "https" -> Ok(s)
           [] p.val.scheme = "http"  -> Ok(s)
           [] OTHER -> Err(<<"OAuth URL must use HTTPS">>)

\* lib.rs:121-129  parse, then the match on the scheme.
ValidateUrl(s) ==
    LET p == ParseUrl(s) IN
    IF p.tag = "Err" THEN Err(p.val)
    ELSE CASE p.val.scheme = "https" -> Ok(s)
           [] p.val.scheme = "http" /\ p.val.host = "localhost" -> Ok(s)
           [] OTHER -> Err(<<"OAuth URL must use HTTPS">>)

\* The authorization URLs a caller passes in.
InputUrls ==
    { <<"https", "://", "idp.example.com", "/authorize?client_id=abc">>,
      <<"http", "://", "localhost", "/authorize">>,
      <<"HTTP", "://", "LOCALHOST", "/authorize">>,
      <<"http", "://", "evil.com", "/authorize">>,
      <<"http", "://", "localhost.evil.com", "/authorize">>,
      <<"ftp", "://", "localhost", "/authorize">>,
      <<"http", "://">>,
      <<"myapp", "://", "localhost", "/authorize">>,
      <<"not a url">> }

\* The URLs the child window navigates to.
NavUrls ==
    { OAUTH_REDIRECT_PREFIX \o <<"?code=XYZ&state=1">>,
      OAUTH_REDIRECT_PREFIX \o <<"2?code=ABC">>,
      <<"http", "://", "localhost", "/OAuth/Callback", "?code=XYZ&state=1">>,
      <<"https", "://", "idp.example.com", "/login">> }

\* tauri::webview::PageLoadEvent
PageLoadEvents == {"Started", "Finished"}

OAUTH_CANCELLED == <<"OAUTH_CANCELLED">>
OAUTH_TIMEOUT == <<"OAUTH_TIMEOUT">>
WINDOW_ERROR == <<"Failed to create OAuth window: ">>

\* lib.rs:176, lib.rs:200  the two error outcomes of a flow
Cancelled == Some(Err(OAUTH_CANCELLED))
TimedOut == Some(Err(OAUTH_TIMEOUT))


\* -------------------------------------------------------------- state
VARIABLES
    url,          \* the argument of open_oauth_window
    pc,           \* where the command (and then its polling loop) stands
    ret,          \* Option: what open_oauth_window returned to the caller
    oauth_state,  \* whether the Arc<OAuthState> has been created
    result,       \* oauth_state.result: Option<Result<String, String>>
    lock,         \* who holds the Mutex around result
    win,          \* the window labelled "oauth": none, open, closing, destroyed
    page_load,    \* whether the on_page_load handler is registered
    close_handler,\* whether the on_window_event handler is registered
    uiPc,         \* where the event-dispatch context stands in a handler
    payload,      \* Option: the page-load event last handed to on_page_load
    elapsed,      \* start.elapsed(), in seconds
    closeReq,     \* who has called close() on the child window
    navLeft,      \* page-load events the window may still deliver
    first,        \* which of {close event, matching navigation} came first
    obsKept,      \* the close observer has found the slot already filled
    owner,        \* the flow that built the window now labelled "oauth"
    w,            \* the window get_webview_window("oauth") handed to the waiter
    later,        \* a later invocation of open_oauth_window: pc, result, ret
    main,         \* the window labelled "main": shown, hidden, closed
    phase,        \* where the process stands between startup and exit
    marker,       \* whether the .reset_permissions file exists
    webview_dir,  \* whether the WebView data directory exists
    runs,         \* startups of the process so far
    sawMarker,    \* this startup found the marker
    deleted       \* this startup deleted the WebView data directory

vars == << url, pc, ret, oauth_state, result, lock, win, page_load,
           close_handler, uiPc, payload, elapsed, closeReq, navLeft,
           first, obsKept, owner, w, later, main, phase, marker,
           webview_dir, runs, sawMarker, deleted >>

winVars == << win, owner, page_load, close_handler >>
histVars == << first, obsKept >>
resetVars == << phase, marker, webview_dir, runs, sawMarker, deleted >>
appVars == << main, resetVars >>
flowVars == << url, pc, ret, oauth_state, result, lock, winVars, uiPc,
               payload, elapsed, closeReq, navLeft, histVars, w >>

NoFirst == [kind |-> "none", url |-> <<>>, late |-> FALSE]

NoLater == [pc |-> "idle", handler |-> FALSE, result |-> None, ret |-> None]

\* lib.rs:118  the command has been invoked and nothing of it exists yet
FlowInit ==
    /\ pc = "validate"
    /\ ret = None
    /\ oauth_state = FALSE
    /\ result = None
    /\ lock = "free"
    /\ win = "none"
    /\ page_load = FALSE
    /\ close_handler = FALSE
    /\ uiPc = "idle"
    /\ payload = None
    /\ elapsed = 0
    /\ closeReq = {}
    /\ navLeft = MaxNavEvents
    /\ first = NoFirst
    /\ obsKept = FALSE
    /\ owner = "none"
    /\ w = "none"
    /\ later = NoLater

\* The application is up (lib.rs:283): the main window is shown, the
\* webview has its data directory, and a command is invoked.
Init ==
    /\ url \in InputUrls
    /\ FlowInit
    /\ main = "shown"
    /\ phase = "running"
    /\ marker = FALSE
    /\ webview_dir = TRUE
    /\ runs = 0
    /\ sawMarker = FALSE
    /\ deleted = FALSE

\* A plausible slip: start is taken anew in every iteration of the loop, so
\* the elapsed time read at the check is always zero.
TimeoutExceededRestarted == 0 > timeout

\* A plausible slip: the comparison takes the deadline itself as exceeded.
TimeoutExceededAtDeadline == elapsed >= timeout

\* lib.rs:195  start.elapsed() > timeout
TimeoutExceeded == elapsed > timeout

\* A plausible slip: the event kind is not looked at.
IsRedirectAnyEvent(p) == StartsWith(p.url, OAUTH_REDIRECT_PREFIX)

\* lib.rs:149-153  the event is a navigation start to the redirect URI
IsRedirect(p) ==
    /\ p.event = "Started"
    /\ StartsWith(p.url, OAUTH_REDIRECT_PREFIX)

\* A plausible slip: the label test is dropped and every close is prevented.
PreventsCloseAnyLabel(label) == label \in {"main", OAUTH_LABEL}

\* lib.rs:290  the application-level handler prevents the close of "main" only
PreventsClose(label) == label = "main"

\* The window exists for app.get_webview_window (lib.rs:197).
WindowExists == win \in {"open", "closing"}

\* Records the first close event or matching navigation of the flow.
NoteFirst(kind, u) ==
    first' = IF first.kind = "none"
             THEN [kind |-> kind, url |-> u, late |-> elapsed > timeout]
             ELSE first

\* ------------------------------------------------- open_oauth_window
\* A plausible slip: the shared state is created before the URL is checked.
ValidateAfterNewState ==
    /\ pc = "validate"
    /\ oauth_state' = TRUE
    /\ LET v == ValidateUrl(url) IN
       IF v.tag = "Err"
       THEN /\ ret' = Some(Err(v.val))
            /\ pc' = "done"
       ELSE /\ pc' = "new_state"
            /\ ret' = ret
    /\ UNCHANGED << appVars, later, w, url, result, lock, winVars, uiPc,
                    payload, elapsed, closeReq, navLeft, histVars >>

\* lib.rs:121-129
Validate ==
    /\ pc = "validate"
    /\ LET v == ValidateUrl(url) IN
       IF v.tag = "Err"
       THEN /\ ret' = Some(Err(v.val))
            /\ pc' = "done"
       ELSE /\ pc' = "new_state"
            /\ ret' = ret
    /\ UNCHANGED << appVars, later, w, url, oauth_state, result, lock,
                    winVars, uiPc, payload, elapsed, closeReq, navLeft,
                    histVars >>

\* lib.rs:132-135
NewState ==
    /\ pc = "new_state"
    /\ oauth_state' = TRUE
    /\ result' = None
    /\ pc' = "build"
    /\ UNCHANGED << appVars, later, w, url, ret, lock, winVars, uiPc, payload,
                    elapsed, closeReq, navLeft, histVars >>

\* lib.rs:138-166  the window is built with its on_page_load handler
BuildOk ==
    /\ pc = "build"
    /\ ~WindowExists
    /\ win' = "open"
    /\ owner' = "A"
    /\ page_load' = TRUE
    /\ pc' = "listen"
    /\ UNCHANGED << appVars, later, w, url, ret, oauth_state, result, lock,
                    close_handler, uiPc, payload, elapsed, closeReq, navLeft,
                    histVars >>

\* A plausible slip: the error of build() is dropped and the command goes on.
BuildErrIgnored ==
    /\ pc = "build"
    /\ pc' = "listen"
    /\ UNCHANGED << appVars, later, w, url, ret, oauth_state, result, lock,
                    winVars, uiPc, payload, elapsed, closeReq, navLeft,
                    histVars >>

\* lib.rs:166-167  build() fails and the error goes to the caller
BuildErr ==
    /\ pc = "build"
    /\ ret' = Some(Err(WINDOW_ERROR))
    /\ pc' = "done"
    /\ UNCHANGED << appVars, later, w, url, oauth_state, result, lock,
                    winVars, uiPc, payload, elapsed, closeReq, navLeft,
                    histVars >>

\* lib.rs:170-180  the close observer is registered on the built window
Listen ==
    /\ pc = "listen"
    /\ close_handler' = TRUE
    /\ pc' = "start"
    /\ UNCHANGED << appVars, later, w, url, ret, oauth_state, result, lock,
                    win, owner, page_load, uiPc, payload, elapsed, closeReq,
                    navLeft, histVars >>

\* lib.rs:183-184  start = Instant::now()
Start ==
    /\ pc = "start"
    /\ elapsed' = 0
    /\ pc' = "poll_lock"
    /\ UNCHANGED << appVars, later, w, url, ret, oauth_state, result, lock,
                    winVars, uiPc, payload, closeReq, navLeft, histVars >>


\* ------------------------------------------------------ the waiter loop
LoopPcs == {"poll_lock", "poll_read", "check_timeout", "get_window",
            "close_window", "sleep"}

\* lib.rs:188  oauth_state.result.lock()
PollLock ==
    /\ pc = "poll_lock"
    /\ lock = "free"
    /\ lock' = "waiter"
    /\ pc' = "poll_read"
    /\ UNCHANGED << appVars, later, w, url, ret, oauth_state, result, winVars,
                    uiPc, payload, elapsed, closeReq, navLeft, histVars >>

\* lib.rs:189-192  a filled slot is cloned and returned; the guard is
\* dropped on the way out of the block either way
PollRead ==
    /\ pc = "poll_read"
    /\ lock = "waiter"
    /\ lock' = "free"
    /\ IF result # None
       THEN /\ ret' = result
            /\ pc' = "done"
       ELSE /\ ret' = ret
            /\ pc' = "check_timeout"
    /\ UNCHANGED << appVars, later, w, url, oauth_state, result, winVars,
                    uiPc, payload, elapsed, closeReq, navLeft, histVars >>

\* lib.rs:195
CheckTimeout ==
    /\ pc = "check_timeout"
    /\ pc' = IF TimeoutExceeded THEN "get_window" ELSE "sleep"
    /\ UNCHANGED << appVars, later, w, url, ret, oauth_state, result, lock,
                    winVars, uiPc, payload, elapsed, closeReq, navLeft,
                    histVars >>

\* lib.rs:197  app.get_webview_window("oauth"); without a window the
\* timeout is returned at once (lib.rs:200)
GetWindow ==
    /\ pc = "get_window"
    /\ IF WindowExists
       THEN /\ pc' = "close_window"
            /\ w' = owner
            /\ ret' = ret
       ELSE /\ pc' = "done"
            /\ w' = w
            /\ ret' = Some(Err(OAUTH_TIMEOUT))
    /\ UNCHANGED << appVars, later, url, oauth_state, result, lock, winVars,
                    uiPc, payload, elapsed, closeReq, navLeft, histVars >>

\* A plausible slip: the timeout is returned without closing the window.
CloseWindowSkipped ==
    /\ pc = "close_window"
    /\ ret' = Some(Err(OAUTH_TIMEOUT))
    /\ pc' = "done"
    /\ UNCHANGED << appVars, later, w, url, oauth_state, result, lock,
                    winVars, uiPc, payload, elapsed, closeReq, navLeft,
                    histVars >>

\* lib.rs:198-200  w.close(), then the timeout is returned
CloseWindow ==
    /\ pc = "close_window"
    /\ closeReq' = closeReq \cup {"waiter"}
    /\ ret' = Some(Err(OAUTH_TIMEOUT))
    /\ pc' = "done"
    /\ UNCHANGED << appVars, later, w, url, oauth_state, result, lock,
                    winVars, uiPc, payload, elapsed, navLeft, histVars >>

\* lib.rs:204  tokio::time::sleep(100 ms)
Sleep ==
    /\ pc = "sleep"
    /\ pc' = "poll_lock"
    /\ UNCHANGED << appVars, later, w, url, ret, oauth_state, result, lock,
                    winVars, uiPc, payload, elapsed, closeReq, navLeft,
                    histVars >>

\* Time passes while the loop runs.  The clock stops once the deadline is
\* behind it: later readings of elapsed() decide nothing new.
Tick ==
    /\ pc \in LoopPcs
    /\ elapsed <= timeout
    /\ elapsed' = elapsed + ClockStep
    /\ UNCHANGED << appVars, later, w, url, pc, ret, oauth_state, result,
                    lock, winVars, uiPc, payload, closeReq, navLeft,
                    histVars >>

\* ------------------------------------------- the redirect watcher
\* lib.rs:147-153  on_page_load is called with an event of the window; only
\* a navigation start to the redirect URI goes on to store a result
PageLoad(ev, u) ==
    /\ page_load
    /\ owner = "A"
    /\ WindowExists
    /\ uiPc = "idle"
    /\ navLeft > 0
    /\ navLeft' = navLeft - 1
    /\ payload' = Some([event |-> ev, url |-> u])
    /\ IF IsRedirect([event |-> ev, url |-> u])
       THEN /\ uiPc' = "pl_lock"
            /\ NoteFirst("match", u)
       ELSE /\ uiPc' = "idle"
            /\ first' = first
    /\ UNCHANGED << appVars, later, w, url, pc, ret, oauth_state, result,
                    lock, winVars, elapsed, closeReq, obsKept >>

\* lib.rs:157  state_for_handler.result.lock()
PageLoadLock ==
    /\ uiPc = "pl_lock"
    /\ lock = "free"
    /\ lock' = "ui"
    /\ uiPc' = "pl_store"
    /\ UNCHANGED << appVars, later, w, url, pc, ret, oauth_state, result,
                    winVars, payload, elapsed, closeReq, navLeft, histVars >>

\* A plausible slip: window.close() is moved inside the block that holds
\* the guard, so the lock is still held when the close is requested.
PageLoadStoreKeepsLock ==
    /\ uiPc = "pl_store"
    /\ lock = "ui"
    /\ result' = Some(Ok((CHOOSE p \in payload : TRUE).url))
    /\ uiPc' = "pl_close"
    /\ UNCHANGED << appVars, later, w, url, pc, ret, oauth_state, lock,
                    winVars, payload, elapsed, closeReq, navLeft, histVars >>

\* lib.rs:158-159  *result = Some(Ok(url)); the guard is dropped
PageLoadStore ==
    /\ uiPc = "pl_store"
    /\ lock = "ui"
    /\ result' = Some(Ok((CHOOSE p \in payload : TRUE).url))
    /\ lock' = "free"
    /\ uiPc' = "pl_close"
    /\ UNCHANGED << appVars, later, w, url, pc, ret, oauth_state, winVars,
                    payload, elapsed, closeReq, navLeft, histVars >>

\* lib.rs:162  let _ = window.close()
PageLoadClose ==
    /\ uiPc = "pl_close"
    /\ closeReq' = closeReq \cup {"watcher"}
    /\ uiPc' = "idle"
    /\ UNCHANGED << appVars, later, w, url, pc, ret, oauth_state, result,
                    lock, winVars, payload, elapsed, navLeft, histVars >>

\* --------------------------------------------- the close observer
\* The window emits CloseRequested (the user closes it, or a close() call
\* is carried out).  lib.rs:283-297: the application-level handler does not
\* prevent it for this label, so the window goes on to close.
\* lib.rs:172: the observer, once registered, takes the event.
CloseRequested ==
    /\ win = "open"
    /\ owner = "A"
    /\ uiPc = "idle"
    /\ win' = IF PreventsClose(OAUTH_LABEL) THEN "open" ELSE "closing"
    /\ uiPc' = IF close_handler THEN "we_lock" ELSE "idle"
    /\ NoteFirst("close", <<>>)
    /\ UNCHANGED << appVars, later, w, url, pc, ret, oauth_state, result,
                    lock, owner, page_load, close_handler, payload, elapsed,
                    closeReq, navLeft, obsKept >>

\* The closing window is destroyed and emits Destroyed (lib.rs:172).
Destroyed ==
    /\ win = "closing"
    /\ owner = "A"
    /\ uiPc = "idle"
    /\ win' = "destroyed"
    /\ uiPc' = IF close_handler THEN "we_lock" ELSE "idle"
    /\ NoteFirst("close", <<>>)
    /\ UNCHANGED << appVars, later, w, url, pc, ret, oauth_state, result,
                    lock, owner, page_load, close_handler, payload, elapsed,
                    closeReq, navLeft, obsKept >>

\* lib.rs:174  state_for_close.result.lock()
WindowEventLock ==
    /\ uiPc = "we_lock"
    /\ lock = "free"
    /\ lock' = "ui"
    /\ uiPc' = "we_check"
    /\ UNCHANGED << appVars, later, w, url, pc, ret, oauth_state, result,
                    winVars, payload, elapsed, closeReq, navLeft, histVars >>

\* A plausible slip: the observer stores its error without looking.
WindowEventStoreAlways ==
    /\ uiPc = "we_check"
    /\ lock = "ui"
    /\ result' = Some(Err(OAUTH_CANCELLED))
    /\ obsKept' = (obsKept \/ result # None)
    /\ lock' = "free"
    /\ uiPc' = "idle"
    /\ UNCHANGED << appVars, later, w, url, pc, ret, oauth_state, winVars,
                    payload, elapsed, closeReq, navLeft, first >>

\* lib.rs:175-178  if result.is_none() { *result = Some(Err(..)) }; the
\* guard is dropped
WindowEventCheck ==
    /\ uiPc = "we_check"
    /\ lock = "ui"
    /\ result' = IF result = None THEN Some(Err(OAUTH_CANCELLED)) ELSE result
    /\ obsKept' = (obsKept \/ result # None)
    /\ lock' = "free"
    /\ uiPc' = "idle"
    /\ UNCHANGED << appVars, later, w, url, pc, ret, oauth_state, winVars,
                    payload, elapsed, closeReq, navLeft, first >>

\* ---------------------------------------------------- a later flow
\* A second invocation of open_oauth_window, made after the first has built
\* its window.  It runs the same code with its own OAuthState and the same
\* window label.  Its user neither closes its window nor reaches the
\* redirect, and its own deadline lies beyond the first flow's: what
\* happens to it here is what the first flow does to it.
laterFrame == << appVars, url, pc, ret, oauth_state, result, lock, page_load,
                 close_handler, uiPc, payload, elapsed, closeReq, navLeft,
                 histVars, w >>

\* lib.rs:118-135  the later command is invoked, its URL passes the
\* validation and its own state is created
LaterInvoke ==
    /\ later.pc = "idle"
    /\ pc \notin {"validate", "new_state", "build"}
    /\ win # "none"
    /\ later' = [later EXCEPT !.pc = "build"]
    /\ UNCHANGED << laterFrame, win, owner >>

\* lib.rs:138-166  build() succeeds: no window holds the label "oauth"
LaterBuildOk ==
    /\ later.pc = "build"
    /\ ~WindowExists
    /\ win' = "open"
    /\ owner' = "B"
    /\ later' = [later EXCEPT !.pc = "listen"]
    /\ UNCHANGED laterFrame

\* lib.rs:166-167  build() fails (the label is taken, or the host refuses)
LaterBuildErr ==
    /\ later.pc = "build"
    /\ later' = [later EXCEPT !.pc = "done", !.ret = Some(Err(WINDOW_ERROR))]
    /\ UNCHANGED << laterFrame, win, owner >>

\* lib.rs:170-184  the later flow registers its close observer and starts
\* to poll
LaterListen ==
    /\ later.pc = "listen"
    /\ later' = [later EXCEPT !.pc = "poll", !.handler = TRUE]
    /\ UNCHANGED << laterFrame, win, owner >>

\* lib.rs:171-179  the later flow's observer: check, then store
LaterObserved ==
    IF later.handler /\ later.result = None
    THEN [later EXCEPT !.result = Cancelled]
    ELSE later

\* The close() the first flow's waiter called on the later flow's window
\* (lib.rs:198) is carried out: CloseRequested goes to the later flow's
\* observer, and nothing prevents the close (lib.rs:290).
LaterCloseRequested ==
    /\ owner = "B"
    /\ win = "open"
    /\ w = "B"
    /\ "waiter" \in closeReq
    /\ uiPc = "idle"
    /\ win' = IF PreventsClose(OAUTH_LABEL) THEN "open" ELSE "closing"
    /\ later' = LaterObserved
    /\ UNCHANGED << laterFrame, owner >>

\* The later flow's window is destroyed and emits Destroyed.
LaterDestroyed ==
    /\ owner = "B"
    /\ win = "closing"
    /\ uiPc = "idle"
    /\ win' = "destroyed"
    /\ later' = LaterObserved
    /\ UNCHANGED << laterFrame, owner >>

\* lib.rs:186-192  the later flow's waiter finds its slot filled and returns
LaterPoll ==
    /\ later.pc = "poll"
    /\ later.result # None
    /\ later' = [later EXCEPT !.pc = "done", !.ret = later.result]
    /\ UNCHANGED << laterFrame, win, owner >>

\* ------------------------------------------- the permission reset
resetFrame == << flowVars, later >>

\* A plausible slip: the test for the marker is dropped and every startup
\* goes on to reset.
EarlyCheckAlwaysResets ==
    /\ phase = "start"
    /\ sawMarker' = marker
    /\ phase' = "reset_dir"
    /\ UNCHANGED << resetFrame, main, marker, webview_dir, runs, deleted >>

\* lib.rs:50-65  check_and_reset_permissions_early, called first in run()
\* (lib.rs:216): without a data directory or without the marker it returns
EarlyCheck ==
    /\ phase = "start"
    /\ \E data_dir \in BOOLEAN :
          IF data_dir /\ marker
          THEN /\ sawMarker' = TRUE
               /\ phase' = "reset_dir"
          ELSE /\ sawMarker' = sawMarker
               /\ phase' = "init"
    /\ UNCHANGED << resetFrame, main, marker, webview_dir, runs, deleted >>

\* lib.rs:67-74  the WebView data directory, if there is one, is removed;
\* remove_dir_all may fail, which is logged and nothing more
RemoveWebviewDir ==
    /\ phase = "reset_dir"
    /\ \E ok \in BOOLEAN :
          IF webview_dir /\ ok
          THEN /\ webview_dir' = FALSE
               /\ deleted' = TRUE
          ELSE /\ webview_dir' = webview_dir
               /\ deleted' = deleted
    /\ phase' = "reset_marker"
    /\ UNCHANGED << resetFrame, main, marker, runs, sawMarker >>

\* lib.rs:76-82  the marker is removed; remove_file may fail
RemoveMarker ==
    /\ phase = "reset_marker"
    /\ \E ok \in BOOLEAN : marker' = IF ok THEN FALSE ELSE marker
    /\ phase' = "init"
    /\ UNCHANGED << resetFrame, main, webview_dir, runs, sawMarker, deleted >>

\* lib.rs:218-283  the application is built and run: the webview is
\* initialized, with its data directory, and the main window is shown
TauriInit ==
    /\ phase = "init"
    /\ phase' = "running"
    /\ webview_dir' = TRUE
    /\ main' = "shown"
    /\ UNCHANGED << resetFrame, marker, runs, sawMarker, deleted >>

\* lib.rs:88-106  reset_webview_permissions writes the marker (the write
\* may fail) and exits the process
ResetRequest ==
    /\ phase = "running"
    /\ \E ok \in BOOLEAN : marker' = IF ok THEN TRUE ELSE marker
    /\ phase' = "exited"
    /\ main' = "closed"
    /\ UNCHANGED << resetFrame, webview_dir, runs, sawMarker, deleted >>

\* lib.rs:255-259  Quit from the tray menu exits the process
Quit ==
    /\ phase = "running"
    /\ phase' = "exited"
    /\ main' = "closed"
    /\ UNCHANGED << resetFrame, marker, webview_dir, runs, sawMarker,
                    deleted >>

\* lib.rs:209  the process is started again and run() is entered
Startup ==
    /\ phase = "exited"
    /\ runs < MaxRuns
    /\ runs' = runs + 1
    /\ phase' = "start"
    /\ sawMarker' = FALSE
    /\ deleted' = FALSE
    /\ UNCHANGED << resetFrame, main, marker, webview_dir >>

\* ------------------------------------------------- the main window
\* lib.rs:283-297  CloseRequested on the main window: the application-level
\* handler prevents the close and hides the window to the tray
MainCloseRequested ==
    /\ phase = "running"
    /\ main = "shown"
    /\ main' = IF PreventsClose("main") THEN "hidden" ELSE "closed"
    /\ UNCHANGED << flowVars, later, resetVars >>

\* lib.rs:261-273  a left click on the tray icon shows the main window
TrayClick ==
    /\ phase = "running"
    /\ main = "hidden"
    /\ main' = "shown"
    /\ UNCHANGED << flowVars, later, resetVars >>

\* ------------------------------------------------------ specification
MainWindow == MainCloseRequested \/ TrayClick

Waiter ==
    \/ Validate \/ NewState \/ BuildOk \/ BuildErr \/ Listen \/ Start
    \/ PollLock \/ PollRead \/ CheckTimeout \/ GetWindow \/ CloseWindow
    \/ Sleep

Handlers ==
    \/ PageLoadLock \/ PageLoadStore \/ PageLoadClose
    \/ WindowEventLock \/ WindowEventCheck

Events ==
    \/ \E ev \in PageLoadEvents, u \in NavUrls : PageLoad(ev, u)
    \/ CloseRequested
    \/ Destroyed

Next == Waiter \/ Handlers \/ Events \/ Tick \/ MainWindow

Spec == Init /\ [][Next]_vars

\* run() is entered for the first time (lib.rs:209): a marker and a data
\* directory may be there from before, and no command has been invoked.
ResetInit ==
    /\ url = <<>>
    /\ FlowInit
    /\ main = "closed"
    /\ phase = "start"
    /\ marker \in BOOLEAN
    /\ webview_dir \in BOOLEAN
    /\ runs = 0
    /\ sawMarker = FALSE
    /\ deleted = FALSE

ResetNext ==
    \/ EarlyCheck \/ RemoveWebviewDir \/ RemoveMarker \/ TauriInit
    \/ ResetRequest \/ Quit \/ Startup

\* The process over its startups and exits.
ResetSpec == ResetInit /\ [][ResetNext]_vars

Later ==
    \/ LaterInvoke \/ LaterBuildOk \/ LaterBuildErr \/ LaterListen
    \/ LaterCloseRequested \/ LaterDestroyed \/ LaterPoll

TwoFlowNext == Waiter \/ Handlers \/ Events \/ Tick \/ Later

\* Two invocations of the command over time, the second after the first
\* has built its window.
TwoFlowSpec == Init /\ [][TwoFlowNext]_vars

\* The waiter task and the event-dispatch context are both scheduled, and
\* the clock advances.
FairSpec ==
    /\ Spec
    /\ WF_vars(Waiter)
    /\ WF_vars(Handlers)
    /\ WF_vars(Tick)

TypeOK ==
    /\ url \in InputUrls
    /\ pc \in {"validate", "new_state", "build", "listen", "start", "done"}
              \cup LoopPcs
    /\ lock \in {"free", "ui", "waiter"}
    /\ win \in {"none", "open", "closing", "destroyed"}
    /\ uiPc \in {"idle", "pl_lock", "pl_store", "pl_close", "we_lock",
                 "we_check"}
    /\ elapsed \in 0..(timeout + ClockStep)
    /\ closeReq \subseteq {"watcher", "waiter"}
    /\ navLeft \in 0..MaxNavEvents
    /\ Cardinality(result) <= 1
    /\ Cardinality(ret) <= 1
    /\ owner \in {"none", "A", "B"}
    /\ w \in {"none", "A", "B"}
    /\ later.pc \in {"idle", "build", "listen", "poll", "done"}
    /\ later.handler \in BOOLEAN
    /\ later.result \in {None, Cancelled}
    /\ main \in {"shown", "hidden", "closed"}
    /\ phase \in {"start", "reset_dir", "reset_marker", "init", "running",
                   "exited"}
    /\ marker \in BOOLEAN
    /\ webview_dir \in BOOLEAN
    /\ runs \in 0..MaxRuns
    /\ sawMarker \in BOOLEAN
    /\ deleted \in BOOLEAN


\* ------------------------------------------------------------- claims
Filled == result # None
Returned == pc = "done"
ValidationErrors == { Some(Err(<<"Invalid URL: ">>)),
                      Some(Err(<<"OAuth URL must use HTTPS">>)) }
FlowResults == {Cancelled, TimedOut} \cup { Some(Ok(u)) : u \in NavUrls }

\* C1: once the slot holds a value, no later step changes its contents.
C1_FirstWriterWins == [][Filled => result' = result]_vars

\* C2: when a close event of the window is the first event of the flow and
\* comes before the deadline, the command returns Err("OAUTH_CANCELLED").
C2_CloseFirstCancelled ==
    (Returned /\ first.kind = "close" /\ ~first.late) => ret = Cancelled

\* C3: when a navigation start to the redirect URI is the first event of
\* the flow and comes before the deadline, the command returns Ok with that
\* very URL, and the watcher, once through, has requested the close.
C3_RedirectFirstSuccess ==
    (Returned /\ uiPc = "idle" /\ first.kind = "match" /\ ~first.late)
        => /\ ret = Some(Ok(first.url))
           /\ "watcher" \in closeReq

\* C4: the close observer leaves a filled slot as it is and stores
\* Cancelled in an empty one.
C4_CloseObserverCheckBeforeSet ==
    [][(uiPc = "we_check" /\ uiPc' # "we_check")
          => result' = (IF Filled THEN result ELSE Cancelled)]_vars

C4_Witness ==
    /\ obsKept
    /\ "watcher" \in closeReq
    /\ \E r \in result : r.tag = "Ok"

\* C5: every flow returns to the caller; when no handler has stored
\* anything (no matching navigation and no close event was delivered to
\* one), what it returns is the timeout, and the timeout is returned after
\* a close of the window has been requested unless the window was gone.
C5_EventuallyReturns ==
    /\ <>Returned
    /\ []((Returned /\ win # "none" /\ result = None) => ret = TimedOut)
    /\ [](ret = TimedOut => ("waiter" \in closeReq \/ win = "destroyed"))

C5_Witness ==
    /\ Returned
    /\ win = "open"
    /\ first.kind = "none"
    /\ ret = TimedOut
    /\ "waiter" \in closeReq

\* C6: a URL passes validation exactly when it parses and is https, or http
\* on localhost; another scheme or host gets the insecure-scheme error and
\* an unparsable string the invalid-URL error.
C6_Allowed(s) ==
    LET p == ParseUrl(s) IN
    /\ p.tag = "Ok"
    /\ \/ p.val.scheme = "https"
       \/ p.val.scheme = "http" /\ p.val.host = "localhost"

C6_ValidationDecides ==
    pc # "validate" =>
        /\ C6_Allowed(url) <=> ret \notin ValidationErrors
        /\ (ParseUrl(url).tag = "Err")
              <=> ret = Some(Err(<<"Invalid URL: ">>))
        /\ (ParseUrl(url).tag = "Ok" /\ ~C6_Allowed(url))
              <=> ret = Some(Err(<<"OAuth URL must use HTTPS">>))

C6_Witness ==
    /\ url = <<"http", "://", "evil.com", "/authorize">>
    /\ ret = Some(Err(<<"OAuth URL must use HTTPS">>))

\* C7: a validation error is returned with nothing created: no shared
\* state, no window, no handler, and the polling loop not entered.
C7_NoSideEffectOnInvalid ==
    ret \in ValidationErrors =>
        /\ Returned
        /\ ~oauth_state
        /\ result = None
        /\ win = "none"
        /\ ~page_load
        /\ ~close_handler
        /\ closeReq = {}
        /\ lock = "free"

C7_Witness ==
    /\ ret \in ValidationErrors
    /\ Returned

\* C8: a page-load event that is not a navigation start, or whose URL does
\* not begin with the redirect prefix, changes neither the slot nor the
\* window, and no close is requested for it.
C8_NonMatchNoEffect ==
    [][(navLeft' # navLeft
          /\ \A p \in payload' :
                ~(p.event = "Started"
                    /\ StartsWith(p.url, OAUTH_REDIRECT_PREFIX)))
          => /\ result' = result
             /\ win' = win
             /\ closeReq' = closeReq
             /\ lock' = lock
             /\ uiPc' = "idle"]_vars

C8_Witness ==
    /\ uiPc = "idle"
    /\ result = None
    /\ win = "open"
    /\ closeReq = {}
    /\ payload = Some([event |-> "Finished",
                       url |-> OAUTH_REDIRECT_PREFIX \o <<"?code=XYZ&state=1">>])

\* C9: the lock is held only between a lock() and the end of the check or
\* store that follows it: never where a close is requested, a window is
\* looked up or the loop sleeps.
C9_LockOnlyAroundSlot ==
    /\ lock = "ui" <=> uiPc \in {"pl_store", "we_check"}
    /\ lock = "waiter" <=> pc = "poll_read"

C9_Witness ==
    /\ uiPc = "pl_close"
    /\ lock = "waiter"

\* C10 as stated: once a flow result has been returned, the window is
\* closing or destroyed, or a close of it has been requested.
C10_WindowGoneOnReturn ==
    (Returned /\ ret \in FlowResults)
        => (win \in {"closing", "destroyed"} \/ closeReq # {})

\* C10 as amended: ... or the watcher has stored Success and its close
\* request is the next thing it does.
C10_WindowGoneOrClosePending ==
    (Returned /\ ret \in FlowResults)
        => \/ win \in {"closing", "destroyed"}
           \/ closeReq # {}
           \/ uiPc = "pl_close" /\ ret = result /\ ret \notin {Cancelled, TimedOut}

C10_Witness ==
    /\ Returned
    /\ ret \in FlowResults
    /\ win = "open"
    /\ closeReq = {}
    /\ uiPc = "pl_close"


\* C11: a read of the filled slot by the waiter yields the same value at
\* any later time: the value the waiter has read and returned is the value
\* the slot holds from then on.
C11_RereadSameValue ==
    (Returned /\ ret \in FlowResults \ {TimedOut}) => result = ret

\* C12: the timeout is returned only with more than 300 seconds elapsed
\* since the waiter started.
C12_TimeoutOnlyAfterDeadline == ret = TimedOut => elapsed > timeout

\* The timeout is returned with no close event ever emitted.
C12_Witness ==
    /\ ret = TimedOut
    /\ elapsed > timeout
    /\ first.kind = "none"
    /\ result = None

\* C13: when build() fails the window-creation error is returned at once:
\* no close observer is registered and the polling loop is not entered.
C13_BuildErrorImmediate ==
    (/\ pc \notin {"validate", "new_state", "build"}
     /\ ret \notin ValidationErrors
     /\ win = "none")
        => /\ ret = Some(Err(WINDOW_ERROR))
           /\ Returned
           /\ ~page_load
           /\ ~close_handler
           /\ result = None
           /\ elapsed = 0
           /\ closeReq = {}

C13_Witness ==
    /\ ret = Some(Err(WINDOW_ERROR))
    /\ Returned
    /\ oauth_state

\* C14: the step that returns the timeout is taken only from a state in
\* which the slot is empty.
C14_NoTimeoutOverResult ==
    [][(ret' = TimedOut /\ ret # TimedOut) => result = None]_vars


\* C16: the application-level handler keeps only the main window from
\* closing (it is hidden instead); the OAuth window's close is never
\* prevented, so while the slot holds the observer's Cancelled the window
\* is closing or destroyed, not open.
C16_OnlyMainKeptOpen ==
    /\ main # "closed"
    /\ result = Cancelled => win \in {"closing", "destroyed"}

C16_Witness ==
    /\ result = Cancelled
    /\ win = "closing"
    /\ main = "hidden"


\* C15: the timeout path of a flow calls close() only on the window this
\* flow built, never on the window of a later flow, and so a later flow is
\* never resolved to Cancelled by it.
C15_TimeoutClosesOwnWindow ==
    later.pc = "done" =>
        /\ w # "B"
        /\ later.ret # Cancelled


\* C17: the WebView data directory is deleted only at a startup that found
\* the marker, the deletion and the removal of the marker both happen in
\* the early check, before the webview is initialized, and a startup that
\* found no marker deletes nothing.
C17_ResetOnlyWithMarkerBeforeInit ==
    /\ [][(webview_dir /\ ~webview_dir')
            => (marker /\ sawMarker /\ phase = "reset_dir")]_vars
    /\ [][(marker /\ ~marker')
            => (sawMarker /\ phase = "reset_marker")]_vars
    /\ [](phase \in {"reset_dir", "reset_marker"} => sawMarker)
    /\ [](deleted => sawMarker)

\* A reset was requested in an earlier run, and this startup has deleted
\* the directory, removed the marker and then initialized the webview.
C17_Witness ==
    /\ runs >= 1
    /\ deleted
    /\ sawMarker
    /\ ~marker
    /\ phase = "running"

====
